---- MODULE Spec2Model ----
(***************************************************************************)
(* Model of the encrypted local database access layer of the Signal MCP    *)
(* server: server/signal-db.js (key resolution, SignalDatabase) and the    *)
(* call-tool handler of server/index.js.                                   *)
(*                                                                         *)
(* Conventions.  A nullable or optional JavaScript/SQL value is a tuple:   *)
(* <<>> is null/undefined/SQL NULL and <<v>> is the value v.  Message text *)
(* (bodies, search queries) is a sequence of one-character strings.        *)
(***************************************************************************)
EXTENDS Integers, Sequences, FiniteSets, TLC

VARIABLES
    env,            \* file system, process environment, platform, keychain
    conversations,  \* rows of the conversations table, in storage order
    messages,       \* rows of the messages table, in storage order
    items,          \* the items row with id 'uuid_id'
    db,             \* SignalDatabase.db: 0 is null, else an index of handles
    selfServiceId,  \* SignalDatabase.selfServiceId
    handles,        \* every Database handle the instance created
    lastOp          \* the most recent call (on the instance, or a call-tool
                    \* request) with its arguments and its outcome

vars == <<env, conversations, messages, items, db, selfServiceId, handles,
          lastOp>>

\* ---------------------------------------------------------------- bounds
MaxHandles == 2
MaxMsgs == 3
MaxLimit == 2
MaxOffset == 3
MaxSearchMsgs == 2
MaxListMsgs == 2
MaxDateMsgs == 2

\* ------------------------------------------------------- optional values
NULL == <<>>
Some(x) == <<x>>
Min(a, b) == IF a < b THEN a ELSE b
Max(a, b) == IF a > b THEN a ELSE b

\* JavaScript truthiness of an optional string / optional number.
TruthyStr(o) == o # NULL /\ o[1] # ""
TruthyNum(o) == o # NULL /\ o[1] # 0

\* a || b on optional strings.
OrStr(a, b) == IF TruthyStr(a) THEN a ELSE b

\* SQL "col = ?": never true when either side is NULL.
SqlEq(col, param) == col # NULL /\ param # NULL /\ col = param

\* ------------------------------------------------------------ errors
NoErr == [kind |-> "none", cause |-> "none"]
Err(k, c) == [kind |-> k, cause |-> c]

\* The parts of an error's message that the code or its reader tells
\* errors apart by.
MessageParts(err) ==
    CASE err.kind = "db_not_found" -> {"database not found"}
      [] err.kind = "key_not_found" -> {"encryption key"}
      [] err.kind = "keychain" ->
            {"encryption key", "Keychain", "security find-generic-password"}
      [] err.kind \in {"open_failed", "engine"} /\ err.cause = "SQLITE_BUSY" ->
            {"database is locked"}
      [] OTHER -> {}

\* ------------------------------------------------------ key resolution
\* JSON.parse of config.json, by the texts the model draws.
ConfigTexts == {"{bad", "null", "{}", "{key}", "{encryptedKey}",
                "{key,encryptedKey}", "{encryptedKey:notag}"}

ConfigParse(text) ==
    CASE text = "{bad" -> [ok |-> FALSE, isNull |-> FALSE, key |-> NULL, encryptedKey |-> NULL]
      [] text = "null" -> [ok |-> TRUE, isNull |-> TRUE, key |-> NULL, encryptedKey |-> NULL]
      [] text = "{}" -> [ok |-> TRUE, isNull |-> FALSE, key |-> NULL, encryptedKey |-> NULL]
      [] text = "{key}" -> [ok |-> TRUE, isNull |-> FALSE, key |-> Some("cfgkey"), encryptedKey |-> NULL]
      [] text = "{encryptedKey}" ->
            [ok |-> TRUE, isNull |-> FALSE, key |-> NULL,
             encryptedKey |-> Some([tag |-> "v10", password |-> "pw", plain |-> "unwrapped"])]
      [] text = "{key,encryptedKey}" ->
            [ok |-> TRUE, isNull |-> FALSE, key |-> Some("cfgkey"),
             encryptedKey |-> Some([tag |-> "v10", password |-> "pw", plain |-> "unwrapped"])]
      [] text = "{encryptedKey:notag}" ->
            [ok |-> TRUE, isNull |-> FALSE, key |-> NULL,
             encryptedKey |-> Some([tag |-> "v11", password |-> "pw", plain |-> "unwrapped"])]

\* Mutant: the password is handed back in place of the decrypted text.
decryptKey_ReturnsPassword(password, blob) ==
    IF blob.tag # "v10" THEN [thrown |-> TRUE, value |-> NULL]
    ELSE IF password # blob.password THEN [thrown |-> TRUE, value |-> NULL]
    ELSE [thrown |-> FALSE, value |-> Some(password)]

\* decryptKey: throws unless the blob starts with the v10 tag and the
\* password is the one the blob was wrapped with (bad padding otherwise).
decryptKey(password, blob) ==
    IF blob.tag # "v10" THEN [thrown |-> TRUE, value |-> NULL]
    ELSE IF password # blob.password THEN [thrown |-> TRUE, value |-> NULL]
    ELSE [thrown |-> FALSE, value |-> Some(blob.plain)]

\* Mutant: the encryptedKey branch is tried before the plaintext key field.
getEncryptionKey_EncryptedFirst(e, providedKey) ==
    IF TruthyStr(providedKey)
    THEN [err |-> NoErr, key |-> providedKey, keychainQueried |-> FALSE]
    ELSE IF ~e.configExists
    THEN [err |-> NoErr, key |-> NULL, keychainQueried |-> FALSE]
    ELSE LET config == ConfigParse(e.configText) IN
         IF ~config.ok \/ config.isNull
         THEN [err |-> NoErr, key |-> NULL, keychainQueried |-> FALSE]
         ELSE IF config.encryptedKey # NULL /\ e.platform = "darwin"
         THEN IF e.keychain = NULL
              THEN [err |-> Err("keychain", "security"), key |-> NULL,
                    keychainQueried |-> TRUE]
              ELSE LET d == decryptKey(e.keychain[1], config.encryptedKey[1]) IN
                   IF d.thrown
                   THEN [err |-> Err("keychain", "decryptKey"), key |-> NULL,
                         keychainQueried |-> TRUE]
                   ELSE [err |-> NoErr, key |-> d.value, keychainQueried |-> TRUE]
         ELSE IF TruthyStr(config.key)
         THEN [err |-> NoErr, key |-> config.key, keychainQueried |-> FALSE]
         ELSE [err |-> NoErr, key |-> NULL, keychainQueried |-> FALSE]

\* Mutant: the outer catch swallows every error, the keychain one included.
getEncryptionKey_SwallowAll(e, providedKey) ==
    IF TruthyStr(providedKey)
    THEN [err |-> NoErr, key |-> providedKey, keychainQueried |-> FALSE]
    ELSE IF ~e.configExists
    THEN [err |-> NoErr, key |-> NULL, keychainQueried |-> FALSE]
    ELSE LET config == ConfigParse(e.configText) IN
         IF ~config.ok \/ config.isNull
         THEN [err |-> NoErr, key |-> NULL, keychainQueried |-> FALSE]
         ELSE IF TruthyStr(config.key)
         THEN [err |-> NoErr, key |-> config.key, keychainQueried |-> FALSE]
         ELSE IF config.encryptedKey # NULL /\ e.platform = "darwin"
         THEN IF e.keychain = NULL
              THEN [err |-> NoErr, key |-> NULL, keychainQueried |-> TRUE]
              ELSE LET d == decryptKey(e.keychain[1], config.encryptedKey[1]) IN
                   IF d.thrown
                   THEN [err |-> NoErr, key |-> NULL, keychainQueried |-> TRUE]
                   ELSE [err |-> NoErr, key |-> d.value, keychainQueried |-> TRUE]
         ELSE [err |-> NoErr, key |-> NULL, keychainQueried |-> FALSE]

\* getEncryptionKey(sourceDir, providedKey) in environment e.
getEncryptionKey(e, providedKey) ==
    IF TruthyStr(providedKey)
    THEN [err |-> NoErr, key |-> providedKey, keychainQueried |-> FALSE]
    ELSE IF ~e.configExists
    THEN [err |-> NoErr, key |-> NULL, keychainQueried |-> FALSE]
    ELSE LET config == ConfigParse(e.configText) IN
         IF ~config.ok \/ config.isNull
         THEN [err |-> NoErr, key |-> NULL, keychainQueried |-> FALSE]
         ELSE IF TruthyStr(config.key)
         THEN [err |-> NoErr, key |-> config.key, keychainQueried |-> FALSE]
         ELSE IF config.encryptedKey # NULL /\ e.platform = "darwin"
         THEN IF e.keychain = NULL
              THEN [err |-> Err("keychain", "security"), key |-> NULL,
                    keychainQueried |-> TRUE]
              ELSE LET d == decryptKey(e.keychain[1], config.encryptedKey[1]) IN
                   IF d.thrown
                   THEN [err |-> Err("keychain", "decryptKey"), key |-> NULL,
                         keychainQueried |-> TRUE]
                   ELSE [err |-> NoErr, key |-> d.value, keychainQueried |-> TRUE]
         ELSE [err |-> NoErr, key |-> NULL, keychainQueried |-> FALSE]

\* ------------------------------------------------------- the engine
\* What the storage engine does during one call: each step is "ok" or the
\* error it throws; tie is the order of rows with equal sort keys.
EngineRuns ==
    {r \in [ctor : {"ok", "SQLITE_CANTOPEN"},
            probe : {"ok", "SQLITE_BUSY", "SQLITE_NOTADB"},
            items : {"ok", "SQLITE_ERROR"},
            query : {"ok", "SQLITE_BUSY"},
            tie : {"asc", "desc"}] :
        Cardinality({f \in {"ctor", "probe", "items", "query"} : r[f] # "ok"}) <= 1}

\* JSON.parse of the items row's json column.
ItemsTexts == {"{bad", "null", "{}", "{value:u1}"}

ItemsParse(text) ==
    CASE text = "{bad" -> [ok |-> FALSE, isNull |-> FALSE, value |-> NULL]
      [] text = "null" -> [ok |-> TRUE, isNull |-> TRUE, value |-> NULL]
      [] text = "{}" -> [ok |-> TRUE, isNull |-> FALSE, value |-> NULL]
      [] text = "{value:u1}" -> [ok |-> TRUE, isNull |-> FALSE, value |-> Some("u1")]

\* loadSelfContact: the new value of this.selfServiceId.
loadSelfContact(self, eng) ==
    IF self.db = 0 THEN self.selfServiceId
    ELSE IF eng.items # "ok" THEN self.selfServiceId
    ELSE IF items = NULL THEN self.selfServiceId
    ELSE LET data == ItemsParse(items[1]) IN
         IF ~data.ok \/ data.isNull THEN self.selfServiceId
         ELSE IF TruthyStr(data.value) THEN data.value ELSE NULL

\* ---------------------------------------------------- SignalDatabase
\* An instance is [key, db, selfServiceId]; hs is the sequence of handles
\* it created, each [open, keyed, probed].
NewInstance(key) == [key |-> key, db |-> 0, selfServiceId |-> NULL]

\* Mutant: the key is resolved before the database file is looked for.
open_KeyFirst(self, hs, eng) ==
    IF self.db # 0
    THEN [self |-> self, hs |-> hs, err |-> NoErr, keychainQueried |-> FALSE]
    ELSE LET k == getEncryptionKey(env, OrStr(self.key, env.SIGNAL_KEY)) IN
         IF k.err # NoErr
         THEN [self |-> self, hs |-> hs, err |-> k.err,
               keychainQueried |-> k.keychainQueried]
         ELSE IF ~env.dbFileExists
         THEN [self |-> self, hs |-> hs, err |-> Err("db_not_found", "none"),
               keychainQueried |-> k.keychainQueried]
         ELSE IF ~TruthyStr(k.key)
         THEN [self |-> self, hs |-> hs, err |-> Err("key_not_found", "none"),
               keychainQueried |-> k.keychainQueried]
         ELSE IF eng.ctor # "ok"
         THEN [self |-> self, hs |-> hs, err |-> Err("open_failed", eng.ctor),
               keychainQueried |-> k.keychainQueried]
         ELSE LET h == Len(hs) + 1
                  made == [self EXCEPT !.db = h]
              IN
              IF eng.probe # "ok"
              THEN [self |-> made,
                    hs |-> Append(hs, [open |-> TRUE, key |-> k.key[1], probed |-> FALSE]),
                    err |-> Err("open_failed", eng.probe),
                    keychainQueried |-> k.keychainQueried]
              ELSE [self |-> [made EXCEPT !.selfServiceId = loadSelfContact(made, eng)],
                    hs |-> Append(hs, [open |-> TRUE, key |-> k.key[1], probed |-> TRUE]),
                    err |-> NoErr,
                    keychainQueried |-> k.keychainQueried]

\* open(): the instance and handles after the call, the error thrown (or
\* NoErr), and whether the secret store was queried.
open(self, hs, eng) ==
    IF self.db # 0
    THEN [self |-> self, hs |-> hs, err |-> NoErr, keychainQueried |-> FALSE]
    ELSE IF ~env.dbFileExists
    THEN [self |-> self, hs |-> hs, err |-> Err("db_not_found", "none"),
          keychainQueried |-> FALSE]
    ELSE LET k == getEncryptionKey(env, OrStr(self.key, env.SIGNAL_KEY)) IN
         IF k.err # NoErr
         THEN [self |-> self, hs |-> hs, err |-> k.err,
               keychainQueried |-> k.keychainQueried]
         ELSE IF ~TruthyStr(k.key)
         THEN [self |-> self, hs |-> hs, err |-> Err("key_not_found", "none"),
               keychainQueried |-> k.keychainQueried]
         ELSE IF eng.ctor # "ok"
         THEN [self |-> self, hs |-> hs, err |-> Err("open_failed", eng.ctor),
               keychainQueried |-> k.keychainQueried]
         ELSE LET h == Len(hs) + 1
                  made == [self EXCEPT !.db = h]
              IN
              IF eng.probe # "ok"
              THEN [self |-> made,
                    hs |-> Append(hs, [open |-> TRUE, key |-> k.key[1], probed |-> FALSE]),
                    err |-> Err("open_failed", eng.probe),
                    keychainQueried |-> k.keychainQueried]
              ELSE [self |-> [made EXCEPT !.selfServiceId = loadSelfContact(made, eng)],
                    hs |-> Append(hs, [open |-> TRUE, key |-> k.key[1], probed |-> TRUE]),
                    err |-> NoErr,
                    keychainQueried |-> k.keychainQueried]

\* Mutant: the handle is closed but the reference to it is kept.
close_KeepsReference(self, hs) ==
    IF self.db # 0
    THEN [self |-> self,
          hs |-> [hs EXCEPT ![self.db].open = FALSE]]
    ELSE [self |-> self, hs |-> hs]

\* close(): the instance and handles after the call.
close(self, hs) ==
    IF self.db # 0
    THEN [self |-> [self EXCEPT !.db = 0],
          hs |-> [hs EXCEPT ![self.db].open = FALSE]]
    ELSE [self |-> self, hs |-> hs]

\* ------------------------------------------------- embedded payloads
\* JSON.parse of a message row's json column, by the texts the model draws.
MsgJsonTexts == {"{bad", "null", "7", "\"s\"", "[]", "{}", "{reactions}",
                 "{quote}", "{quote:{}}", "{sticker:emoji}", "{sticker:packId}"}

Undefined == [kind |-> "undefined"]
JsNull == [kind |-> "null"]
Obj(reactions, quote, sticker) ==
    [kind |-> "object", reactions |-> reactions, quote |-> quote, sticker |-> sticker]
EmptyObj == Obj(NULL, NULL, NULL)

MsgJsonParse(text) ==
    CASE text = "{bad" -> [ok |-> FALSE, value |-> Undefined]
      [] text = "null" -> [ok |-> TRUE, value |-> JsNull]
      [] text = "7" -> [ok |-> TRUE, value |-> [kind |-> "number"]]
      [] text = "\"s\"" -> [ok |-> TRUE, value |-> [kind |-> "string"]]
      [] text = "[]" -> [ok |-> TRUE, value |-> [kind |-> "array"]]
      [] text = "{}" -> [ok |-> TRUE, value |-> EmptyObj]
      [] text = "{reactions}" -> [ok |-> TRUE, value |-> Obj(Some(<<"+1">>), NULL, NULL)]
      [] text = "{quote}" ->
            [ok |-> TRUE, value |-> Obj(NULL, Some([text |-> Some("quoted")]), NULL)]
      [] text = "{quote:{}}" ->
            [ok |-> TRUE, value |-> Obj(NULL, Some([text |-> NULL]), NULL)]
      [] text = "{sticker:emoji}" ->
            [ok |-> TRUE,
             value |-> Obj(NULL, NULL, Some([emoji |-> Some(":)"), packId |-> Some("pack")]))]
      [] text = "{sticker:packId}" ->
            [ok |-> TRUE,
             value |-> Obj(NULL, NULL, Some([emoji |-> NULL, packId |-> Some("pack")]))]

\* v.field for a parsed value v: a TypeError on null, the field of an
\* object, undefined (NULL) on a number, string or array.
PropThrows(v) == v.kind = "null"
Prop(v, field) == IF v.kind = "object" THEN v[field] ELSE NULL

\* JSON.parse of a conversation row's json column.
ConvJsonTexts == {"{bad", "null", "{}", "{name}", "{groupName}"}

ConvJsonParse(text) ==
    CASE text = "{bad" -> [ok |-> FALSE, isNull |-> FALSE, name |-> NULL, profileName |-> NULL, groupName |-> NULL]
      [] text = "null" -> [ok |-> TRUE, isNull |-> TRUE, name |-> NULL, profileName |-> NULL, groupName |-> NULL]
      [] text = "{}" -> [ok |-> TRUE, isNull |-> FALSE, name |-> NULL, profileName |-> NULL, groupName |-> NULL]
      [] text = "{name}" -> [ok |-> TRUE, isNull |-> FALSE, name |-> Some("Zed"), profileName |-> NULL, groupName |-> NULL]
      [] text = "{groupName}" -> [ok |-> TRUE, isNull |-> FALSE, name |-> NULL, profileName |-> NULL, groupName |-> Some("Grp")]

\* The display name: name || profileName, else the names of the auxiliary
\* payload when it parses (listChats 186-195, getChatMessages 229-238,
\* searchChat 281-290).
DisplayName(conv) ==
    LET first == OrStr(conv.name, conv.profileName) IN
    IF ~TruthyStr(first) /\ TruthyStr(conv.json)
    THEN LET j == ConvJsonParse(conv.json[1]) IN
         IF ~j.ok \/ j.isNull THEN first
         ELSE OrStr(j.name, OrStr(j.profileName, j.groupName))
    ELSE first

\* new Date(ts).toISOString(): the rendered instant; "" is <<>>.
ISO(ts) == <<"ISO", ts>>

\* The three decisions of formatMessage: the sender, the attachment marker
\* and the payload the fields are read from.
\* Mutant: the direction tag alone decides the sender.
SenderOf_DirectionOnly(selfId, msg, contactName) ==
    IF msg.type = "outgoing" THEN "Me" ELSE contactName

SenderOf(selfId, msg, contactName) ==
    LET isFromSelf == msg.sourceServiceId = selfId \/ msg.type = "outgoing"
    IN IF isFromSelf THEN "Me" ELSE contactName

\* Mutant: a present attachment flag counts as truthy, 0 included.
AttachmentsOf_Present(msg) == IF msg.hasAttachments # NULL THEN "yes" ELSE ""

AttachmentsOf(msg) == IF TruthyNum(msg.hasAttachments) THEN "yes" ELSE ""

\* formatMessage(msg, contactName) on an instance whose cached identifier
\* is selfId.  thrown is TRUE when the call raises a TypeError.
formatMessage(selfId, msg, contactName) ==
    LET ts == IF TruthyNum(msg.sentAt) THEN msg.sentAt ELSE msg.timestamp
        date == IF TruthyNum(ts) THEN ISO(ts[1]) ELSE <<>>
        sender == SenderOf(selfId, msg, contactName)
        parsed == IF TruthyStr(msg.json) THEN MsgJsonParse(msg.json[1])
                  ELSE [ok |-> FALSE, value |-> Undefined]
        jsonLoaded == IF parsed.ok THEN parsed.value ELSE EmptyObj
        r == Prop(jsonLoaded, "reactions")
        q == Prop(jsonLoaded, "quote")
        s == Prop(jsonLoaded, "sticker")
    IN
    IF PropThrows(jsonLoaded)
    THEN [thrown |-> TRUE, date |-> date, sender |-> sender, body |-> <<>>,
          quote |-> "", sticker |-> "", reactions |-> <<>>, attachments |-> ""]
    ELSE [thrown |-> FALSE,
          date |-> date,
          sender |-> sender,
          body |-> IF msg.body # NULL THEN msg.body[1] ELSE <<>>,
          quote |-> IF q # NULL THEN OrStr(q[1].text, Some(""))[1] ELSE "",
          sticker |-> IF s # NULL
                      THEN OrStr(s[1].emoji, OrStr(s[1].packId, Some("")))[1]
                      ELSE "",
          reactions |-> IF r # NULL THEN r[1] ELSE <<>>,
          attachments |-> AttachmentsOf(msg)]

\* ------------------------------------------------------------ queries
\* ORDER BY timestamp DESC over the rows in S: NULL sorts last; rows with
\* equal timestamps come in rowid order or its reverse (tie).
GreaterTs(x, y) == x # NULL /\ (y = NULL \/ x[1] > y[1])

Before(i, j, tie) ==
    \/ GreaterTs(messages[i].timestamp, messages[j].timestamp)
    \/ /\ messages[i].timestamp = messages[j].timestamp
       /\ IF tie = "asc" THEN i < j ELSE i > j

OrderByTimestampDesc(S, tie) ==
    [p \in 1..Cardinality(S) |->
        CHOOSE i \in S : Cardinality({j \in S : Before(j, i, tie)}) = p - 1]

\* "LIMIT l OFFSET o" of SQLite: a negative limit is no limit.
LimitOffset(rows, l, o) ==
    LET from == Max(o, 0) + 1
        to == IF l < 0 THEN Len(rows) ELSE Min(Len(rows), Max(o, 0) + l)
    IN SubSeq(rows, from, to)

\* SQLite LIKE without ESCAPE: % matches any run of characters, _ any one
\* character, any other character itself, ASCII letters without case.
Lower(c) == IF c = "A" THEN "a" ELSE IF c = "B" THEN "b" ELSE c

RECURSIVE Like(_, _)
Like(pat, s) ==
    IF pat = <<>> THEN s = <<>>
    ELSE IF Head(pat) = "%"
    THEN Like(Tail(pat), s) \/ (s # <<>> /\ Like(pat, Tail(s)))
    ELSE IF s = <<>> THEN FALSE
    ELSE IF Head(pat) = "_" THEN Like(Tail(pat), Tail(s))
    ELSE Lower(Head(pat)) = Lower(Head(s)) /\ Like(Tail(pat), Tail(s))

\* "body LIKE ?": NULL (no match) when the body is NULL.
BodyLike(body, pat) == body # NULL /\ Like(pat, body[1])

\* Mutant: the first row of the table stands in when no row matches.
FindConversation_FallbackFirst(chatName) ==
    LET hits == {c \in 1..Len(conversations) :
                    \/ SqlEq(conversations[c].name, Some(chatName))
                    \/ SqlEq(conversations[c].profileName, Some(chatName))}
    IN IF hits = {} THEN Min(1, Len(conversations))
       ELSE CHOOSE c \in hits : \A d \in hits : c <= d

\* "WHERE name = ? OR profileName = ? LIMIT 1": the first matching row in
\* storage order, 0 when there is none.
FindConversation(chatName) ==
    LET hits == {c \in 1..Len(conversations) :
                    \/ SqlEq(conversations[c].name, Some(chatName))
                    \/ SqlEq(conversations[c].profileName, Some(chatName))}
    IN IF hits = {} THEN 0 ELSE CHOOSE c \in hits : \A d \in hits : c <= d

MessagesOf(convId) ==
    {i \in 1..Len(messages) : messages[i].conversationId = convId}

\* What a read operation returns to the action that made it.
OpResult(o, err, queried, conv, rows, out) ==
    [self |-> o.self, hs |-> o.hs, err |-> err, queried |-> queried,
     handle |-> IF queried THEN o.self.db ELSE 0, conv |-> conv,
     rows |-> rows, out |-> out, keychainQueried |-> o.keychainQueried]

\* messages.map(msg => this.formatMessage(msg, contactName || "Unknown"))
FormatRows(o, conv, rows) ==
    LET contactName == OrStr(DisplayName(conversations[conv]), Some("Unknown"))[1]
        out == [p \in 1..Len(rows) |->
                   formatMessage(o.self.selfServiceId, messages[rows[p]], contactName)]
    IN IF \E p \in 1..Len(rows) : out[p].thrown
       THEN OpResult(o, Err("TypeError", "null payload"), TRUE, conv, rows, <<>>)
       ELSE OpResult(o, NoErr, TRUE, conv, rows, out)

\* getChatMessages(chatName, {limit, offset})
getChatMessages(self, hs, chatName, limit, offset, eng) ==
    LET o == open(self, hs, eng) IN
    IF o.err # NoErr THEN OpResult(o, o.err, FALSE, 0, <<>>, <<>>)
    ELSE IF eng.query # "ok" THEN OpResult(o, Err("engine", eng.query), TRUE, 0, <<>>, <<>>)
    ELSE LET conv == FindConversation(chatName)
             off == IF offset = NULL THEN 0 ELSE offset[1]
         IN
         IF conv = 0 THEN OpResult(o, NoErr, TRUE, 0, <<>>, <<>>)
         ELSE LET all == OrderByTimestampDesc(MessagesOf(conversations[conv].id), eng.tie)
                  rows == IF TruthyNum(limit) THEN LimitOffset(all, limit[1], off)
                          ELSE IF off > 0 THEN LimitOffset(all, -1, off)
                          ELSE all
              IN FormatRows(o, conv, rows)

\* searchChat(chatName, query, {limit})
searchChat(self, hs, chatName, query, limit, eng) ==
    LET o == open(self, hs, eng) IN
    IF o.err # NoErr THEN OpResult(o, o.err, FALSE, 0, <<>>, <<>>)
    ELSE IF eng.query # "ok" THEN OpResult(o, Err("engine", eng.query), TRUE, 0, <<>>, <<>>)
    ELSE LET conv == FindConversation(chatName) IN
         IF conv = 0 THEN OpResult(o, NoErr, TRUE, 0, <<>>, <<>>)
         ELSE LET pat == <<"%">> \o query \o <<"%">>
                  hits == {i \in MessagesOf(conversations[conv].id) :
                              BodyLike(messages[i].body, pat)}
                  all == OrderByTimestampDesc(hits, eng.tie)
                  rows == IF TruthyNum(limit) THEN LimitOffset(all, limit[1], 0)
                          ELSE all
              IN FormatRows(o, conv, rows)

\* options.chats.split(",").map(c => c.trim()), by the texts the model draws.
ChatsTexts == {"", "c1", "c1, s2", "zz"}

SplitTrim(text) ==
    CASE text = "" -> {""}
      [] text = "c1" -> {"c1"}
      [] text = "c1, s2" -> {"c1", "s2"}
      [] text = "zz" -> {"zz"}

\* Mutant: a conversation without messages is skipped whatever includeEmpty.
SkipEmpty_Always(includeEmpty, messageCount) == messageCount = 0

\* "!includeEmpty && messageCount === 0" of listChats.
SkipEmpty(includeEmpty, messageCount) ==
    ~(includeEmpty = Some(TRUE)) /\ messageCount = 0

\* listChats({chats, includeEmpty}); the e164 column is projected unchanged
\* and is left out of the rows.
listChats(self, hs, chats, includeEmpty, eng) ==
    LET o == open(self, hs, eng) IN
    IF o.err # NoErr THEN OpResult(o, o.err, FALSE, 0, <<>>, <<>>)
    ELSE IF eng.query # "ok" THEN OpResult(o, Err("engine", eng.query), TRUE, 0, <<>>, <<>>)
    ELSE LET count(c) == Cardinality(MessagesOf(conversations[c].id))
             info(c) ==
                 LET conv == conversations[c] IN
                 [id |-> conv.id,
                  serviceId |-> OrStr(conv.serviceId, Some(conv.id))[1],
                  name |-> LET d == DisplayName(conv) IN IF TruthyStr(d) THEN d ELSE NULL,
                  profileName |-> conv.profileName,
                  type |-> conv.type,
                  totalMessages |-> count(c)]
             keep(c) ==
                 /\ conversations[c].type \in {"private", "group"}
                 /\ ~SkipEmpty(includeEmpty, count(c))
             kept == SelectSeq([c \in 1..Len(conversations) |-> c], keep)
             chatInfos == [p \in 1..Len(kept) |-> info(kept[p])]
             inFilter(ci) == ci.id \in SplitTrim(chats[1])
                             \/ ci.serviceId \in SplitTrim(chats[1])
         IN OpResult(o, NoErr, TRUE, 0, <<>>,
                     IF TruthyStr(chats) THEN SelectSeq(chatInfos, inFilter)
                     ELSE chatInfos)

\* ------------------------------------------------ the call-tool handler
\* The fragments the handler looks for in an error's message.
MessageIncludes(err) == MessageParts(err)

\* Mutant: a lock is recognised by the engine's code name alone.
userMessage_BusyCodeOnly(err) ==
    LET m == MessageIncludes(err) IN
    IF "database not found" \in m THEN "not_found_hint"
    ELSE IF "encryption key" \in m \/ "SQLITE_NOTADB" \in m THEN "decrypt_hint"
    ELSE IF "SQLITE_BUSY" \in m THEN "locked_hint"
    ELSE "verbatim"

userMessage(err) ==
    LET m == MessageIncludes(err) IN
    IF "database not found" \in m THEN "not_found_hint"
    ELSE IF "encryption key" \in m \/ "SQLITE_NOTADB" \in m THEN "decrypt_hint"
    ELSE IF "SQLITE_BUSY" \in m \/ "database is locked" \in m THEN "locked_hint"
    ELSE "verbatim"

\* The switch of the handler on a fresh instance: the operation's result.
NotOpened(inst, err) ==
    OpResult([self |-> inst, hs |-> <<>>, keychainQueried |-> FALSE],
             err, FALSE, 0, <<>>, <<>>)

ToolSwitch(inst, name, args, eng) ==
    CASE name = "signal_list_chats" ->
            listChats(inst, <<>>, args.chats, args.include_empty, eng)
      [] name = "signal_get_chat_messages" ->
            IF ~TruthyStr(args.chat_name)
            THEN NotOpened(inst, Err("validation", "chat_name is required"))
            ELSE getChatMessages(inst, <<>>, args.chat_name[1], args.limit,
                                 args.offset, eng)
      [] name = "signal_search_chat" ->
            IF ~TruthyStr(args.chat_name)
            THEN NotOpened(inst, Err("validation", "chat_name is required"))
            ELSE IF args.query = NULL \/ args.query[1] = <<>>
            THEN NotOpened(inst, Err("validation", "query is required"))
            ELSE searchChat(inst, <<>>, args.chat_name[1], args.query[1],
                            args.limit, eng)
      [] OTHER -> NotOpened(inst, Err("validation", "Unknown tool"))

\* Mutant: db.close() after the switch instead of in a finally block.
HandleCallTool_CloseOnSuccess(name, args, eng) ==
    LET inst == NewInstance(OrStr(args.key, env.SIGNAL_KEY))
        r == ToolSwitch(inst, name, args, eng)
        c == close(r.self, r.hs)
    IN IF r.err = NoErr THEN [r EXCEPT !.self = c.self, !.hs = c.hs] ELSE r

\* The whole handler: new SignalDatabase, the switch, finally db.close().
HandleCallTool(name, args, eng) ==
    LET inst == NewInstance(OrStr(args.key, env.SIGNAL_KEY))
        r == ToolSwitch(inst, name, args, eng)
        c == close(r.self, r.hs)
    IN [r EXCEPT !.self = c.self, !.hs = c.hs]

\* ------------------------------------------------------------ actions
\* The instance the library's caller holds.
Inst == [key |-> env.key, db |-> db, selfServiceId |-> selfServiceId]

NoArgs == [key |-> NULL, chat_name |-> NULL, limit |-> NULL, offset |-> NULL,
           query |-> NULL, chats |-> NULL, include_empty |-> NULL]

Recorded(op, tool, args, eng, r) ==
    [op |-> op, tool |-> tool, args |-> args, tie |-> eng.tie,
     engine |-> [ctor |-> eng.ctor, probe |-> eng.probe],
     err |-> r.err, queried |-> r.queried, handle |-> r.handle,
     conv |-> r.conv, rows |-> r.rows, out |-> r.out,
     selfId |-> r.self.selfServiceId,
     keychainQueried |-> r.keychainQueried,
     toolHandles |-> IF op = "callTool" THEN r.hs ELSE <<>>,
     hint |-> IF op = "callTool" /\ r.err # NoErr THEN userMessage(r.err) ELSE "none"]

NoOp ==
    [op |-> "none", tool |-> "none", args |-> NoArgs, tie |-> "asc",
     engine |-> [ctor |-> "ok", probe |-> "ok"],
     err |-> NoErr, queried |-> FALSE, handle |-> 0, conv |-> 0,
     rows |-> <<>>, out |-> <<>>, selfId |-> NULL, keychainQueried |-> FALSE,
     toolHandles |-> <<>>, hint |-> "none"]

\* The caller is synchronous: it makes a call when it holds no result
\* (lastOp = NoOp) and takes the result (Return) before the next call.
ListChats(inp) ==
    /\ lastOp = NoOp
    /\ \E chats \in inp.chats, includeEmpty \in inp.includeEmpty, eng \in inp.engs :
        \E r \in {listChats(Inst, handles, chats, includeEmpty, eng)} :
        /\ Len(r.hs) <= MaxHandles
        /\ db' = r.self.db
        /\ selfServiceId' = r.self.selfServiceId
        /\ handles' = r.hs
        /\ lastOp' = Recorded("listChats", "none",
                        [NoArgs EXCEPT !.chats = chats, !.include_empty = includeEmpty],
                        eng, r)
        /\ UNCHANGED <<env, conversations, messages, items>>

GetChatMessages(inp) ==
    /\ lastOp = NoOp
    /\ \E chatName \in inp.names, limit \in inp.limits, offset \in inp.offsets,
       eng \in inp.engs :
        \E r \in {getChatMessages(Inst, handles, chatName, limit, offset, eng)} :
        /\ Len(r.hs) <= MaxHandles
        /\ db' = r.self.db
        /\ selfServiceId' = r.self.selfServiceId
        /\ handles' = r.hs
        /\ lastOp' = Recorded("getChatMessages", "none",
                        [NoArgs EXCEPT !.chat_name = Some(chatName), !.limit = limit,
                                       !.offset = offset],
                        eng, r)
        /\ UNCHANGED <<env, conversations, messages, items>>

SearchChat(inp) ==
    /\ lastOp = NoOp
    /\ \E chatName \in inp.names, query \in inp.queries, limit \in inp.limits,
       eng \in inp.engs :
        \E r \in {searchChat(Inst, handles, chatName, query, limit, eng)} :
        /\ Len(r.hs) <= MaxHandles
        /\ db' = r.self.db
        /\ selfServiceId' = r.self.selfServiceId
        /\ handles' = r.hs
        /\ lastOp' = Recorded("searchChat", "none",
                        [NoArgs EXCEPT !.chat_name = Some(chatName),
                                       !.query = Some(query), !.limit = limit],
                        eng, r)
        /\ UNCHANGED <<env, conversations, messages, items>>

Close ==
    /\ lastOp = NoOp
    /\ \E c \in {close(Inst, handles)} :
        /\ db' = c.self.db
        /\ handles' = c.hs
        /\ lastOp' = [NoOp EXCEPT !.op = "close"]
        /\ UNCHANGED <<env, conversations, messages, items, selfServiceId>>

Return ==
    /\ lastOp # NoOp
    /\ lastOp' = NoOp
    /\ UNCHANGED <<env, conversations, messages, items, db, selfServiceId, handles>>

\* A call-tool request: the handler works on an instance of its own.
ToolNames == {"signal_list_chats", "signal_get_chat_messages",
              "signal_search_chat", "signal_unknown"}

ToolArgs(inp, name) ==
    CASE name = "signal_list_chats" ->
            {[NoArgs EXCEPT !.key = k, !.chats = c, !.include_empty = e] :
                k \in inp.toolKeys, c \in inp.chats, e \in inp.includeEmpty}
      [] name = "signal_get_chat_messages" ->
            {[NoArgs EXCEPT !.key = k, !.chat_name = n, !.limit = l, !.offset = o] :
                k \in inp.toolKeys, n \in inp.toolChatNames,
                l \in inp.toolLimits, o \in inp.toolOffsets}
      [] name = "signal_search_chat" ->
            {[NoArgs EXCEPT !.key = k, !.chat_name = n, !.query = q, !.limit = l] :
                k \in inp.toolKeys, n \in inp.toolChatNames,
                q \in inp.toolQueries, l \in inp.toolLimits}
      [] OTHER -> {[NoArgs EXCEPT !.key = k] : k \in inp.toolKeys}

CallTool(inp) ==
    /\ lastOp = NoOp
    /\ \E name \in ToolNames :
        \E args \in ToolArgs(inp, name), eng \in inp.engs :
          \E r \in {HandleCallTool(name, args, eng)} :
            /\ lastOp' = Recorded("callTool", name, args, eng, r)
            /\ UNCHANGED <<env, conversations, messages, items, db,
                           selfServiceId, handles>>

NextOf(inp) ==
    \/ ListChats(inp)
    \/ GetChatMessages(inp)
    \/ SearchChat(inp)
    \/ Close
    \/ CallTool(inp)
    \/ Return

\* ------------------------------------------------------- initial states
SeqsUpTo(S, n) == UNION {[1..k -> S] : k \in 0..n}

Options(S) == {NULL} \cup {Some(x) : x \in S}

OkRuns == {r \in EngineRuns : r.ctor = "ok" /\ r.probe = "ok"
                              /\ r.items = "ok" /\ r.query = "ok"}

Conv(id, serviceId, name, profileName, type, json) ==
    [id |-> id, serviceId |-> serviceId, name |-> name,
     profileName |-> profileName, type |-> type, json |-> json]

Msg(conversationId, timestamp, sentAt, sourceServiceId, body, json, hasAttachments, type) ==
    [conversationId |-> conversationId, timestamp |-> timestamp,
     sentAt |-> sentAt, sourceServiceId |-> sourceServiceId, body |-> body,
     json |-> json, hasAttachments |-> hasAttachments, type |-> type]

Alice == Conv("c1", Some("s1"), Some("Alice"), NULL, "private", NULL)
Bob == Conv("c2", Some("s2"), NULL, Some("Bob"), "private", NULL)

Environments ==
    [dbFileExists : BOOLEAN,
     key : Options({"ctorkey"}),
     SIGNAL_KEY : Options({"envkey"}),
     configExists : BOOLEAN,
     configText : ConfigTexts,
     platform : {"darwin", "linux"},
     keychain : Options({"pw", "wrongpw"})]

\* An environment in which open succeeds when the engine does.
GoodEnv ==
    [dbFileExists |-> TRUE, key |-> NULL, SIGNAL_KEY |-> NULL,
     configExists |-> TRUE, configText |-> "{key}", platform |-> "linux",
     keychain |-> NULL]

InitWith(envs, convs, msgs, itemRows) ==
    /\ env \in envs
    /\ conversations \in convs
    /\ messages \in msgs
    /\ items \in itemRows
    /\ db = 0
    /\ selfServiceId = NULL
    /\ handles = <<>>
    /\ lastOp = NoOp

\* --------------------------------------------- Spec: the handle lifecycle
\* Every way key resolution and the engine can go, on a small database.
LifeEnvs ==
    {e \in Environments :
        /\ ~e.configExists => e.configText = "{}"
        /\ e.keychain # NULL =>
              /\ e.configExists
              /\ e.platform = "darwin"
              /\ e.configText \in {"{encryptedKey}", "{encryptedKey:notag}"}
        /\ e.platform = "darwin" =>
              e.configText \in {"{encryptedKey}", "{encryptedKey:notag}",
                                "{key,encryptedKey}"}}

LifeMsgs ==
    SeqsUpTo({Msg("c1", Some(1), NULL, Some("u2"), Some(<<"a">>), NULL, Some(0),
                  "incoming")}, 1)

LifeInputs ==
    [names |-> {"Alice"}, limits |-> {NULL}, offsets |-> {NULL},
     queries |-> {<<"a">>}, chats |-> {NULL}, includeEmpty |-> {NULL},
     engs |-> {r \in EngineRuns : r.tie = "asc"},
     toolKeys |-> Options({"argkey"}), toolChatNames |-> Options({"Alice"}),
     toolLimits |-> {NULL}, toolOffsets |-> {NULL},
     toolQueries |-> Options({<<"a">>})]

Init == InitWith(LifeEnvs, {<<Alice>>}, LifeMsgs, {Some("{value:u1}")})

Next == NextOf(LifeInputs)

Spec == Init /\ [][Next]_vars

ReadOps == {"listChats", "getChatMessages", "searchChat"}

\* The key open would resolve for the instance in this environment.
InstKey == getEncryptionKey(env, OrStr(env.key, env.SIGNAL_KEY))

\* C1 (as claimed): a read operation on the instance queries data only
\* through a handle whose liveness probe succeeded, and fails with an error
\* when the key cannot be resolved.
C1_QueriesOnlyProbedHandle ==
    lastOp.op \in ReadOps =>
        /\ lastOp.queried =>
              /\ lastOp.handle \in 1..Len(handles)
              /\ handles[lastOp.handle].probed
        /\ (InstKey.err # NoErr \/ ~TruthyStr(InstKey.key)) => lastOp.err # NoErr

\* C2: after the call-tool handler returns, no handle it created is open.
C2_ToolCallClosesHandle ==
    lastOp.op = "callTool" =>
        \A h \in 1..Len(lastOp.toolHandles) : ~lastOp.toolHandles[h].open

\* C2 witness: a tool call whose open failed after the handle was created.
C2_Witness ==
    /\ lastOp.op = "callTool"
    /\ lastOp.err.kind = "open_failed"
    /\ Len(lastOp.toolHandles) = 1
    /\ ~lastOp.toolHandles[1].probed
    /\ ~lastOp.toolHandles[1].open

\* What the environment configures, read off the config file's text.
CfgHasKey ==
    env.configExists /\ env.configText \in {"{key}", "{key,encryptedKey}"}

CfgHasEncryptedKey ==
    /\ env.configExists
    /\ env.configText \in {"{encryptedKey}", "{key,encryptedKey}", "{encryptedKey:notag}"}

\* The blob carries the version tag and the secret store holds its password.
Unwrappable == env.configText = "{encryptedKey}" /\ env.keychain = Some("pw")

\* The source the priority order selects for an explicit key value.
KeySource(explicit) ==
    IF TruthyStr(explicit) THEN "explicit"
    ELSE IF CfgHasKey THEN "config"
    ELSE IF CfgHasEncryptedKey /\ env.platform = "darwin" THEN "wrapped"
    ELSE "none"

\* A call that reaches open(): the explicit key it resolves with and the
\* handles of the instance it works on.
OpensDb ==
    \/ lastOp.op \in ReadOps
    \/ lastOp.op = "callTool" /\ lastOp.err.kind # "validation"

ExplicitKey ==
    IF lastOp.op = "callTool" THEN OrStr(lastOp.args.key, env.SIGNAL_KEY)
    ELSE OrStr(env.key, env.SIGNAL_KEY)

CallHandles == IF lastOp.op = "callTool" THEN lastOp.toolHandles ELSE handles

KeyErrors == {"key_not_found", "keychain"}

\* C12: with the database file present, every handle is keyed with the
\* explicit key (constructor or tool argument, else SIGNAL_KEY) when there
\* is one, whatever the config file holds; else with the config file's key
\* field when it has one, an encryptedKey field notwithstanding; else, on
\* the platform with a secret store, with the unwrapped encryptedKey; in
\* these cases key resolution raises no error.  When no source yields a
\* key the call fails with the key-not-found error and creates no handle.
C12_KeyPriority ==
    (OpensDb /\ env.dbFileExists) =>
        LET src == KeySource(ExplicitKey)
            keyed(k) == /\ lastOp.err.kind \notin KeyErrors
                        /\ \A h \in 1..Len(CallHandles) : CallHandles[h].key = k
        IN
        /\ src = "explicit" => keyed(ExplicitKey[1])
        /\ src = "config" => keyed("cfgkey")
        /\ (src = "wrapped" /\ Unwrappable) => keyed("unwrapped")
        /\ src = "none" =>
              /\ lastOp.err.kind = "key_not_found"
              /\ CallHandles = <<>>

\* C12 witness: the config file holds both fields on the platform with a
\* secret store and the handle is keyed with the plaintext key field.
C12_Witness ==
    /\ lastOp.op \in ReadOps
    /\ lastOp.err = NoErr
    /\ env.platform = "darwin"
    /\ env.configText = "{key,encryptedKey}"
    /\ ExplicitKey = NULL
    /\ Len(handles) = 1
    /\ handles[1].key = "cfgkey"

C14_UnwrapFailureSurfaces ==
    (/\ OpensDb
     /\ env.dbFileExists
     /\ KeySource(ExplicitKey) = "wrapped"
     /\ ~Unwrappable) =>
        /\ lastOp.err.kind = "keychain"
        /\ MessageParts(lastOp.err) # MessageParts(Err("key_not_found", "none"))
        /\ "security find-generic-password" \in MessageParts(lastOp.err)
        /\ CallHandles = <<>>

\* C14 witness: a read operation fails on a blob without the version tag.
C14_Witness ==
    /\ lastOp.op \in ReadOps
    /\ env.configText = "{encryptedKey:notag}"
    /\ env.keychain = Some("pw")
    /\ lastOp.err = Err("keychain", "decryptKey")
    /\ lastOp.keychainQueried

\* The engine failed while the handler's instance opened the database.
EngineFailedOpen ==
    /\ lastOp.op = "callTool"
    /\ lastOp.err.kind \notin ({"validation"} \cup KeyErrors)
    /\ env.dbFileExists
    /\ (lastOp.engine.ctor # "ok" \/ lastOp.engine.probe # "ok")

EngineBusy == "SQLITE_BUSY" \in {lastOp.engine.ctor, lastOp.engine.probe}

\* C16: open fails with the database-not-found error when the database
\* file is absent, whatever the keys; a tool call whose open meets a busy
\* engine ends with the locked outcome, one whose open meets any other
\* engine failure (a wrong key: not a database) with the open-failed error
\* passed on as it is, and one without the file with the not-found
\* outcome, three different outcomes; the failed call made one attempt
\* (at most one handle, closed) and returned the error.
C16_OpenFailuresDistinct ==
    /\ (lastOp.op \in ReadOps /\ ~env.dbFileExists) =>
          (lastOp.err = Err("db_not_found", "none") /\ handles = <<>>)
    /\ (lastOp.op = "callTool" /\ lastOp.err.kind # "validation"
        /\ ~env.dbFileExists) =>
          /\ lastOp.err = Err("db_not_found", "none")
          /\ lastOp.hint = "not_found_hint"
          /\ lastOp.toolHandles = <<>>
    /\ EngineFailedOpen =>
          /\ lastOp.err.kind = "open_failed"
          /\ lastOp.err.cause \in {lastOp.engine.ctor, lastOp.engine.probe} \ {"ok"}
          /\ lastOp.hint = IF EngineBusy THEN "locked_hint" ELSE "verbatim"
          /\ ~lastOp.queried
          /\ Len(lastOp.toolHandles) <= 1

\* C16 witness: a tool call whose probe met a locked database.
C16_Witness ==
    /\ EngineFailedOpen
    /\ lastOp.engine.probe = "SQLITE_BUSY"
    /\ lastOp.err = Err("open_failed", "SQLITE_BUSY")
    /\ lastOp.hint = "locked_hint"

\* C18: a call's open looks for the database file before it resolves any
\* key: without the file the call fails with the not-found error and the
\* secret store is not queried; and the secret store is queried only when
\* the file exists, there is no explicit or environment key, the config
\* file has no key field and has an encryptedKey field, and the platform
\* is the one with a secret store.
C18_SecretStoreQueriedLast ==
    OpensDb =>
        /\ ~env.dbFileExists =>
              (lastOp.err.kind = "db_not_found" /\ ~lastOp.keychainQueried)
        /\ lastOp.keychainQueried =>
              /\ env.dbFileExists
              /\ ~TruthyStr(ExplicitKey)
              /\ ~CfgHasKey
              /\ CfgHasEncryptedKey
              /\ env.platform = "darwin"

\* C18 witness: the file is absent where the secret-store lookup would
\* have failed, and the call fails with the not-found error.
C18_Witness ==
    /\ lastOp.op \in ReadOps
    /\ ~env.dbFileExists
    /\ KeySource(ExplicitKey) = "wrapped"
    /\ env.keychain = NULL
    /\ lastOp.err = Err("db_not_found", "none")
    /\ ~lastOp.keychainQueried

\* The handles of the instance that are open.
OpenHandles(hs) == {h \in 1..Len(hs) : hs[h].open}

\* C20: in every step of the instance, the only handle that can be open
\* afterwards is the one the instance holds; a handle is created only by
\* a read operation that found none held, one at a time; close leaves no
\* handle held or open and changes nothing when none was held; and a read
\* operation that queried did so through the held, open handle, a newly
\* created one when none was held before (after a close, for instance).
C20_HandleLifecycle ==
    [][/\ OpenHandles(handles') \subseteq {db'}
       /\ Len(handles') # Len(handles) =>
             /\ db = 0
             /\ lastOp'.op \in ReadOps
             /\ Len(handles') = Len(handles) + 1
             /\ db' = Len(handles')
       /\ lastOp'.op = "close" =>
             /\ db' = 0
             /\ OpenHandles(handles') = {}
             /\ db = 0 => handles' = handles
       /\ (lastOp'.op \in ReadOps /\ lastOp'.queried) =>
             /\ db' # 0
             /\ lastOp'.handle = db'
             /\ handles'[db'].open
             /\ db = 0 => db' = Len(handles) + 1]_vars

\* C20 witness: after a close, a read operation queried through a second,
\* open handle while the first one stays closed.
C20_Witness ==
    /\ lastOp.op \in ReadOps
    /\ lastOp.queried
    /\ Len(handles) = MaxHandles
    /\ ~handles[1].open
    /\ handles[Len(handles)].open
    /\ lastOp.handle = Len(handles)

\* ------------------------------------------------ SpecPage: pagination
\* Two conversations, up to MaxMsgs messages with timestamps that tie.
PageMsgs ==
    SeqsUpTo({Msg(c, Some(t), NULL, Some("u2"), Some(<<"a">>), NULL, Some(0),
                  "incoming") : c \in {"c1", "c2"}, t \in {1, 2}}, MaxMsgs)

PageInputs ==
    [names |-> {"Alice", "Nobody"}, limits |-> Options(0..MaxLimit),
     offsets |-> Options(0..MaxOffset),
     queries |-> {<<"a">>}, chats |-> {NULL}, includeEmpty |-> {NULL},
     engs |-> OkRuns,
     toolKeys |-> {NULL}, toolChatNames |-> {Some("Alice")},
     toolLimits |-> Options({0, 1}), toolOffsets |-> Options({1}),
     toolQueries |-> {Some(<<"a">>)}]

InitPage == InitWith({GoodEnv}, {<<Alice, Bob>>}, PageMsgs, {NULL})

NextPage == NextOf(PageInputs)

SpecPage == InitPage /\ [][NextPage]_vars

\* A getChatMessages call that resolved a conversation and returned.
GotPage ==
    /\ lastOp.op = "getChatMessages"
    /\ lastOp.err = NoErr
    /\ lastOp.conv # 0

PageN == Cardinality(MessagesOf(conversations[lastOp.conv].id))
PageOffset == IF lastOp.args.offset = NULL THEN 0 ELSE lastOp.args.offset[1]

\* C3 (as claimed): with limit k and offset o the call returns exactly
\* min(k, max(0, N - o)) items, for every k >= 0; with no limit and offset
\* 0 it returns N items.
C3_PageLength ==
    GotPage =>
        /\ lastOp.args.limit # NULL =>
              Len(lastOp.out) = Min(lastOp.args.limit[1], Max(0, PageN - PageOffset))
        /\ (lastOp.args.limit = NULL /\ PageOffset = 0) => Len(lastOp.out) = PageN

\* rows is the slice [o, o + n) of some ordering of the rows S by
\* timestamp descending: the rows are distinct rows of S in non-increasing
\* timestamp order, and the rows of S left out split into o rows that sort
\* no later than the first returned row and rows that sort no earlier
\* than the last returned one.
Ts(i) == messages[i].timestamp[1]

IsSliceOfDescending(rows, S, o, n) ==
    LET P == {rows[p] : p \in 1..Len(rows)}
        rest == S \ P
        skipped == Min(o, Cardinality(S))
    IN
    /\ Len(rows) = n
    /\ P \subseteq S
    /\ Cardinality(P) = Len(rows)
    /\ \A p \in 1..(Len(rows) - 1) : Ts(rows[p]) >= Ts(rows[p + 1])
    /\ rows # <<>> =>
          LET hi == Ts(rows[1])
              lo == Ts(rows[Len(rows)])
          IN
          /\ \A m \in rest : Ts(m) >= hi \/ Ts(m) <= lo
          /\ Cardinality({m \in rest : Ts(m) > hi}) <= skipped
          /\ skipped <= Cardinality({m \in rest : Ts(m) >= hi})
          /\ Cardinality({m \in rest : Ts(m) < lo}) <= Cardinality(rest) - skipped
          /\ Cardinality(rest) - skipped <= Cardinality({m \in rest : Ts(m) <= lo})

\* C4 (as claimed): the returned page is the slice [o, o + k) of the
\* conversation's messages by timestamp descending when a limit k is
\* given, and the whole tail from o when only an offset is given.
C4_PageIsSlice ==
    GotPage =>
        LET S == MessagesOf(conversations[lastOp.conv].id)
            tail == Max(0, PageN - PageOffset)
        IN IsSliceOfDescending(lastOp.rows, S, PageOffset,
               IF lastOp.args.limit # NULL THEN Min(lastOp.args.limit[1], tail)
               ELSE tail)

\* C4 on the calls whose limit is absent or at least 1.
C4_PageIsSliceForPositiveLimit ==
    (GotPage /\ lastOp.args.limit # Some(0)) => C4_PageIsSlice

\* The conversation rows that carry the name of the last call as their
\* name or profile name.
Named ==
    {c \in 1..Len(conversations) :
        \/ conversations[c].name = lastOp.args.chat_name
        \/ conversations[c].profileName = lastOp.args.chat_name}

\* C15: on an opened session getChatMessages and searchChat return the
\* empty list and raise no error when no conversation row has the given
\* name as its name or profile name, and when the conversation the name
\* resolves to has no message rows.
C15_NoMatchIsEmpty ==
    lastOp.op \in {"getChatMessages", "searchChat"} =>
        /\ Named = {} => (lastOp.err = NoErr /\ lastOp.out = <<>>)
        /\ (\A c \in Named : MessagesOf(conversations[c].id) = {}) =>
              (lastOp.err = NoErr /\ lastOp.out = <<>>)

\* C15 witness: a search under a name no conversation has, in a database
\* that holds messages, returns the empty list.
C15_Witness ==
    /\ lastOp.op = "searchChat"
    /\ lastOp.args.chat_name = Some("Nobody")
    /\ messages # <<>>
    /\ lastOp.queried
    /\ lastOp.err = NoErr
    /\ lastOp.out = <<>>

\* ------------------------------------------------- SpecSearch: search
\* One conversation whose messages have no body, an empty body, or a body
\* over the characters a, A, b, %.
SearchBodies == {NULL, Some(<<>>), Some(<<"a">>), Some(<<"A", "b">>), Some(<<"%">>)}

SearchMsgs ==
    SeqsUpTo({Msg("c1", Some(t), NULL, Some("u2"), b, NULL, Some(0), "incoming") :
                 t \in {1, 2}, b \in SearchBodies}, MaxSearchMsgs)

SearchQueries == {<<>>, <<"a">>, <<"b">>, <<"a", "B">>, <<"_">>, <<"%">>}

SearchInputs ==
    [names |-> {"Alice"}, limits |-> Options(0..MaxLimit), offsets |-> {NULL},
     queries |-> SearchQueries, chats |-> {NULL}, includeEmpty |-> {NULL},
     engs |-> OkRuns,
     toolKeys |-> {NULL}, toolChatNames |-> {Some("Alice")},
     toolLimits |-> {NULL}, toolOffsets |-> {NULL},
     toolQueries |-> {NULL, Some(<<>>), Some(<<"a">>)}]

InitSearch == InitWith({GoodEnv}, {<<Alice, Bob>>}, SearchMsgs, {NULL})

NextSearch == NextOf(SearchInputs)

SpecSearch == InitSearch /\ [][NextSearch]_vars

\* A searchChat call that resolved a conversation and returned.
Searched ==
    /\ lastOp.op = "searchChat"
    /\ lastOp.err = NoErr
    /\ lastOp.conv # 0

\* body contains q as a literal substring, ASCII letters without case.
Contains(body, q) ==
    /\ body # NULL
    /\ \E i \in 0..(Len(body[1]) - Len(q)) :
          \A j \in 1..Len(q) : Lower(body[1][i + j]) = Lower(q[j])

RowSet(rows) == {rows[p] : p \in 1..Len(rows)}

\* C5 (as claimed): every returned message's body contains the query
\* literally, and with no limit every message of the conversation whose
\* body contains it is returned, also for queries with % or _.
C5_SearchIsLiteralSubstring ==
    Searched =>
        LET q == lastOp.args.query[1]
            S == MessagesOf(conversations[lastOp.conv].id)
        IN
        /\ \A i \in RowSet(lastOp.rows) : i \in S /\ Contains(messages[i].body, q)
        /\ lastOp.args.limit = NULL =>
              \A i \in S : Contains(messages[i].body, q) => i \in RowSet(lastOp.rows)

\* C6 (as claimed): a search for the empty substring returns all of the
\* conversation's messages, those with no body included, capped at limit
\* when a limit is given; also when it is made through the call-tool
\* handler.
C6_EmptySearchReturnsAll ==
    /\ (Searched /\ lastOp.args.query = Some(<<>>)) =>
          LET S == MessagesOf(conversations[lastOp.conv].id) IN
          /\ RowSet(lastOp.rows) \subseteq S
          /\ Len(lastOp.rows) = IF lastOp.args.limit = NULL THEN Cardinality(S)
                                ELSE Min(lastOp.args.limit[1], Cardinality(S))
    /\ (/\ lastOp.op = "callTool"
        /\ lastOp.tool = "signal_search_chat"
        /\ lastOp.args.query = Some(<<>>)) => lastOp.err = NoErr

\* ----------------------------------------------- SpecFormat: formatting
\* One message row over every sender identifier, direction tag, payload
\* text and attachment flag, in a named or an unnamed conversation, with
\* every form of the configuration row that holds the owner's identifier.
Unnamed(json) == Conv("c3", NULL, Some(""), NULL, "group", json)

FormatConvs == {<<Alice, Unnamed(j)>> : j \in {NULL, Some("{name}")}}

FormatMsgs ==
    {<<Msg(c, Some(1), NULL, ssid, Some(<<"a">>), json, att, type)>> :
        c \in {"c1", "c3"}, ssid \in Options({"u1", "u2"}),
        json \in Options(MsgJsonTexts \cup {""}), att \in Options({0, 1}),
        type \in {"incoming", "outgoing"}}

FormatInputs ==
    [names |-> {"Alice", ""}, limits |-> {NULL}, offsets |-> {NULL},
     queries |-> {<<"a">>}, chats |-> {NULL}, includeEmpty |-> {NULL},
     engs |-> {r \in EngineRuns : r.tie = "asc" /\ r.ctor = "ok"
                                  /\ r.probe = "ok" /\ r.query = "ok"},
     toolKeys |-> {NULL}, toolChatNames |-> {Some("Alice")},
     toolLimits |-> {NULL}, toolOffsets |-> {NULL},
     toolQueries |-> {Some(<<"a">>)}]

InitFormat == InitWith({GoodEnv}, FormatConvs, FormatMsgs, Options(ItemsTexts))

NextFormat == NextOf(FormatInputs)

SpecFormat == InitFormat /\ [][NextFormat]_vars

\* A getChatMessages or searchChat call whose open and queries succeeded.
Fetched ==
    /\ lastOp.op \in {"getChatMessages", "searchChat"}
    /\ lastOp.err.kind \in {"none", "TypeError"}
    /\ lastOp.conv # 0

\* Such a call that returned its formatted rows.
Formatted == Fetched /\ lastOp.err = NoErr

Row(p) == messages[lastOp.rows[p]]

\* C7 (as claimed): when the owner's identifier could not be loaded (the
\* cached identifier is null) open still succeeds and no message that is
\* not tagged outgoing gets sender "Me", whatever its sender identifier,
\* a missing one included.
C7_NullSelfNeverMatches ==
    (Formatted /\ lastOp.selfId = NULL) =>
        \A p \in 1..Len(lastOp.out) :
            Row(p).type # "outgoing" => lastOp.out[p].sender # "Me"

\* The contact name the conversation resolves to.
ContactName(c) ==
    IF c.name = Some("Alice") THEN "Alice"
    ELSE IF c.json = Some("{name}") THEN "Zed"
    ELSE "Unknown"

Malformed(json) ==
    /\ json # NULL
    /\ json[1] \in {"{bad", "null", "7", "\"s\"", "[]"}

\* C9 (as claimed): whatever the payload text of a row, formatting raises
\* no error, so the call does not fail, and a malformed payload yields
\* empty reactions, quote and sticker.
C9_MalformedPayloadDegrades ==
    Fetched =>
        /\ lastOp.err = NoErr
        /\ \A p \in 1..Len(lastOp.out) :
              Malformed(Row(p).json) =>
                  /\ lastOp.out[p].reactions = <<>>
                  /\ lastOp.out[p].quote = ""
                  /\ lastOp.out[p].sticker = ""

AttachmentFlag(p) == Row(p).hasAttachments # NULL /\ Row(p).hasAttachments[1] # 0

\* C10 (as claimed): a row with no embedded payload yields reactions = [],
\* quote = "", sticker = "" and attachments = ""; and attachments is "yes"
\* when the attachment flag is truthy and "" otherwise.
C10_NoPayloadAllEmpty ==
    Formatted =>
        \A p \in 1..Len(lastOp.out) :
            /\ Row(p).json = NULL =>
                  /\ lastOp.out[p].reactions = <<>>
                  /\ lastOp.out[p].quote = ""
                  /\ lastOp.out[p].sticker = ""
                  /\ lastOp.out[p].attachments = ""
            /\ lastOp.out[p].attachments = IF AttachmentFlag(p) THEN "yes" ELSE ""

\* C10 (amended): a row with no embedded payload yields reactions = [],
\* quote = "" and sticker = ""; its attachments field, like that of every
\* row, is "yes" when the attachment flag is truthy and "" otherwise.
C10_NoPayloadEmptyAttachmentsByFlag ==
    Formatted =>
        \A p \in 1..Len(lastOp.out) :
            /\ Row(p).json = NULL =>
                  /\ lastOp.out[p].reactions = <<>>
                  /\ lastOp.out[p].quote = ""
                  /\ lastOp.out[p].sticker = ""
            /\ lastOp.out[p].attachments = IF AttachmentFlag(p) THEN "yes" ELSE ""

\* C10 witness: a row with no payload and a truthy attachment flag.
C10_Witness ==
    /\ Formatted
    /\ Len(lastOp.out) = 1
    /\ Row(1).json = NULL
    /\ Row(1).hasAttachments = Some(1)
    /\ lastOp.out[1].attachments = "yes"
    /\ lastOp.out[1].reactions = <<>>

\* ------------------------------------------------- SpecList: the listing
\* Alice and Bob, and a third conversation row of any type, with or
\* without Alice's name and a named auxiliary payload, stored before or
\* after them; up to MaxListMsgs messages spread over the three.
Third(type, name, json) == Conv("c3", NULL, name, NULL, type, json)

ThirdRows ==
    {Third(t, n, j) : t \in {"private", "group", "story"},
                      n \in {NULL, Some("Alice")},
                      j \in {NULL, Some("{groupName}"), Some("{bad")}}

ListConvs == {<<Alice, Bob, t>> : t \in ThirdRows} \cup {<<t, Alice, Bob>> : t \in ThirdRows}

ListMsgs ==
    SeqsUpTo({Msg(c, Some(1), NULL, Some("u2"), Some(<<"a">>), NULL, Some(0),
                  "incoming") : c \in {"c1", "c2", "c3"}}, MaxListMsgs)

ListInputs ==
    [names |-> {"Alice", "Bob", "Grp", "Nobody"}, limits |-> {NULL}, offsets |-> Options({0}),
     queries |-> {<<"a">>}, chats |-> Options(ChatsTexts),
     includeEmpty |-> Options(BOOLEAN),
     engs |-> {r \in OkRuns : r.tie = "asc"},
     toolKeys |-> {NULL}, toolChatNames |-> {Some("Alice")},
     toolLimits |-> {NULL}, toolOffsets |-> {NULL},
     toolQueries |-> {Some(<<"a">>)}]

InitList == InitWith({GoodEnv}, ListConvs, ListMsgs, {NULL})

NextList == NextOf(ListInputs)

SpecList == InitList /\ [][NextList]_vars

\* A listChats call that returned.
Listed == lastOp.op = "listChats" /\ lastOp.err = NoErr

\* The set of identifiers a supplied (non-empty) chats filter names.
ChatsFilter == SplitTrim(lastOp.args.chats[1])

\* The conversation rows the claim says a listing holds.
ExpectedChats ==
    {c \in 1..Len(conversations) :
        /\ conversations[c].type \in {"private", "group"}
        /\ \/ lastOp.args.include_empty = Some(TRUE)
           \/ MessagesOf(conversations[c].id) # {}
        /\ TruthyStr(lastOp.args.chats) =>
              \/ conversations[c].id \in ChatsFilter
              \/ /\ conversations[c].serviceId # NULL
                 /\ conversations[c].serviceId[1] \in ChatsFilter}

\* C11: listChats returns exactly the conversation rows of type private or
\* group that have a message (or all of them with includeEmpty set) and,
\* when a chats filter is supplied, whose id or service identifier is in
\* it; each once, in storage order, with totalMessages the number of
\* message rows of that conversation id (0 for an empty one).
C11_ListChatsContract ==
    Listed =>
        /\ Len(lastOp.out) = Cardinality(ExpectedChats)
        /\ \A c \in ExpectedChats :
              \E p \in 1..Len(lastOp.out) :
                 /\ lastOp.out[p].id = conversations[c].id
                 /\ lastOp.out[p].type = conversations[c].type
                 /\ lastOp.out[p].totalMessages =
                       Cardinality(MessagesOf(conversations[c].id))
                 /\ p = Cardinality({d \in ExpectedChats : d <= c})

\* C11 witness: a filtered listing with includeEmpty set that holds a
\* conversation with no messages and leaves out a row of another type.
C11_Witness ==
    /\ Listed
    /\ lastOp.args.include_empty = Some(TRUE)
    /\ lastOp.args.chats = Some("c1, s2")
    /\ conversations[1].type = "story"
    /\ Len(lastOp.out) = 2
    /\ \E p \in 1..2 : lastOp.out[p].totalMessages = 0
    /\ \E p \in 1..2 : lastOp.out[p].id = "c2"

\* What listChats({includeEmpty: true}) returns on the instance as it is.
Listing ==
    listChats(Inst, handles, NULL, Some(TRUE),
              CHOOSE r \in OkRuns : r.tie = "asc").out

\* C17 (as claimed): for every conversation c that listChats returns with a
\* display name, getChatMessages(c.name) with no limit and offset 0
\* returns exactly c.totalMessages messages, all of them rows of c, also
\* when the name comes from the auxiliary payload and when another row
\* carries the same name.
C17_ListedNameRetrievesItsMessages ==
    (/\ lastOp.op = "getChatMessages"
     /\ lastOp.err = NoErr
     /\ lastOp.args.limit = NULL
     /\ lastOp.args.offset \in {NULL, Some(0)}) =>
        \A p \in 1..Len(Listing) :
            Listing[p].name = lastOp.args.chat_name =>
                /\ Len(lastOp.out) = Listing[p].totalMessages
                /\ \A q \in 1..Len(lastOp.rows) :
                      messages[lastOp.rows[q]].conversationId = Listing[p].id

\* ------------------------------------------- SpecDate: displayed dates
\* Alice's messages over every combination of a primary timestamp and a
\* "sent at" timestamp, each absent, zero or positive.
DateMsgs ==
    SeqsUpTo({Msg("c1", t, sa, Some("u2"), Some(<<"a">>), NULL, Some(0), "incoming") :
                 t \in Options({0, 1, 2}), sa \in Options({0, 1, 3})}, MaxDateMsgs)

DateInputs ==
    [names |-> {"Alice"}, limits |-> Options({1}), offsets |-> {NULL},
     queries |-> {<<"a">>}, chats |-> {NULL}, includeEmpty |-> {NULL},
     engs |-> OkRuns,
     toolKeys |-> {NULL}, toolChatNames |-> {Some("Alice")},
     toolLimits |-> {NULL}, toolOffsets |-> {NULL},
     toolQueries |-> {Some(<<"a">>)}]

InitDate == InitWith({GoodEnv}, {<<Alice, Bob>>}, DateMsgs, {NULL})

NextDate == NextOf(DateInputs)

SpecDate == InitDate /\ [][NextDate]_vars

\* The instant a date field shows; the empty string sorts before every
\* rendered instant.
DateRank(date) == IF date = <<>> THEN 0 ELSE date[2]

\* The date the claim gives a row: "sent at" when present and non-zero,
\* else the primary timestamp, else the empty string.
ClaimedDate(m) ==
    IF m.sentAt # NULL /\ m.sentAt[1] # 0 THEN ISO(m.sentAt[1])
    ELSE IF m.timestamp # NULL /\ m.timestamp[1] # 0 THEN ISO(m.timestamp[1])
    ELSE <<>>

\* C19 (as claimed): the date fields of the list that getChatMessages or
\* searchChat returns are the claimed dates of the rows and are in
\* non-increasing order, newest first.
C19_DatesNonIncreasing ==
    Formatted =>
        /\ \A p \in 1..Len(lastOp.out) : lastOp.out[p].date = ClaimedDate(Row(p))
        /\ \A p \in 1..(Len(lastOp.out) - 1) :
              DateRank(lastOp.out[p].date) >= DateRank(lastOp.out[p + 1].date)

====
